---- MODULE Spec2Model ----
(***************************************************************************)
(* Tool-call dispatcher of the Altair component                            *)
(* (src/src/components/altair/Altair.tsx) together with the media client   *)
(* it awaits (src/src/lib/media-client.ts).                                *)
(*                                                                         *)
(* One action is one turn of the browser's event loop: the arrival of a    *)
(* tool-call batch runs onToolCall up to the first await of every call,    *)
(* and the settling of an awaited promise (a generation, a video download) *)
(* runs that call's continuation.  React state is read inside onToolCall   *)
(* through the closure of the render in which the handler was registered;  *)
(* a batch keeps the closure it was started with for all its             *)
(* continuations.  The render that follows a turn runs the cleanups of    *)
(* the effects whose dependencies changed.  The user can close the media   *)
(* panel, and the component can unmount, between any two turns.            *)
(*                                                                         *)
(* Two parts stand on their own: ControlTray, which joins the speaking and *)
(* the function session (TraySpec), and the decoding of generate_video's   *)
(* image argument, a pure function of the argument string (DecodeSpec).    *)
(***************************************************************************)
EXTENDS Integers, Sequences, FiniteSets, TLC

\* ---------------------------------------------------------------- bounds
MaxBatches == 3
MaxCalls == 2
MaxTotalCalls == 3
MaxClicks == 3
MaxSent == 2
MaxOrphans == 1
MaxLen == 7

\* ------------------------------------------------------------ tool names
RenderAltair == "render_altair"
GenerateVideo == "generate_video"
GenerateImage == "generate_image"
GenerateSpeech == "generate_speech"
GenerateVideoFromWebcam == "generate_video_from_webcam"
ShowMedia == "show_media"
HideMedia == "hide_media"

DeclaredNames ==
  {RenderAltair, GenerateVideo, GenerateImage, GenerateSpeech,
   GenerateVideoFromWebcam, ShowMedia, HideMedia}

\* a name the function model may send that no declaration carries
UndeclaredName == "other_tool"

ToolNames == DeclaredNames \cup {UndeclaredName}

VideoNames == {GenerateVideo, GenerateVideoFromWebcam}

\* ------------------------------------------------------------ tool calls
\* fc.id is optional; a missing (falsy) id is the empty string
NoId == ""

\* ids are unique within one batch only: the call at position i carries
\* the i-th id or none
CallId(i) == <<"a", "b", "c", "d">>[i]

\* fc.args is optional
NoArgs == [present |-> FALSE, mediaType |-> "-", json_graph |-> 0]

\* the arguments the function model gives a call of this name; a chart
\* specification is named after the position of its call, hide_media
\* declares no parameters
ArgsOf(name, i) ==
  IF name = ShowMedia
    THEN {[present |-> TRUE, mediaType |-> m, json_graph |-> 0] :
            m \in {"video", "image"}}
  ELSE IF name = RenderAltair
    THEN {[present |-> TRUE, mediaType |-> "-", json_graph |-> i]}
  ELSE IF name = HideMedia THEN {NoArgs}
  ELSE {[present |-> TRUE, mediaType |-> "-", json_graph |-> 0]}

\* A run draws its calls from one family: the tools the function model
\* uses, and which of the optional fields of a call (id, args) it may omit.
Families ==
  {[names |-> {GenerateVideo, GenerateImage, ShowMedia, HideMedia}, missing |-> {}],
   [names |-> {GenerateVideoFromWebcam, ShowMedia, HideMedia}, missing |-> {}],
   [names |-> {RenderAltair, GenerateSpeech, UndeclaredName, GenerateVideo},
    missing |-> {}],
   [names |-> {RenderAltair, HideMedia, GenerateImage}, missing |-> {"id"}],
   [names |-> {RenderAltair, HideMedia}, missing |-> {"id", "args"}],
   [names |-> {ShowMedia, GenerateVideo}, missing |-> {"args"}]}

CallsAt(i, family) ==
  UNION {{[name |-> n, id |-> d, args |-> a] :
            d \in {CallId(i)} \cup (IF "id" \in family.missing THEN {NoId} ELSE {}),
            a \in ArgsOf(n, i) \cup
                    (IF "args" \in family.missing THEN {NoArgs} ELSE {})} :
           n \in family.names}

RECURSIVE BatchesOfLen(_, _)
BatchesOfLen(n, family) ==
  IF n = 0 THEN {<<>>}
  ELSE {Append(b, c) : b \in BatchesOfLen(n - 1, family), c \in CallsAt(n, family)}

\* the batches of n calls a family can send
ToolCallBatches ==
  [family \in Families |-> [n \in 1..MaxCalls |-> BatchesOfLen(n, family)]]

\* ------------------------------------------------------- component state
VARIABLES
  jsonString,           \* useState: chart specification to render (0 = "")
  requestStates,        \* useState: Map requestId -> status
  mediaClientRef,       \* useRef: TRUE iff a MediaClient was constructed
  mediaDisplay,         \* useState: MediaDisplay | null
  lastGeneratedVideo,   \* useState: {uri, blobUrl?} | null
  lastGeneratedImage,   \* useState: data URI | null (0 = null)
  isLoadingMedia,       \* useState
  isGeneratingMedia,    \* useState
  generatingMediaType,  \* useState: "image" | "video" | null
  downloadCalls,        \* downloadVideoAsBlob invocations, per source URI
  nextId,               \* next fresh URI / data URI / blob URL
  blobUrls,             \* blob URL -> number of URL.revokeObjectURL calls
  mounted,              \* the component is mounted
  lastDisplayNote,      \* the last "shown" / "hidden" the speaking session got
  now,                  \* Date.now()
  tools,                \* the family of tools the function model calls
  batches               \* the onToolCall invocations, in arrival order

\* ControlTray (src/src/lib/media-client.ts, second half)
VARIABLES
  speakingConnected,    \* useLiveAPIContext().connected
  functionConnected,    \* useFunctionAPIContext().connected
  pending,              \* per session: the connect / disconnect in flight
  joined,               \* the last call of the tray's connect / disconnect
  muted,                \* useState
  activeVideoStream,    \* useState: TRUE iff a MediaStream is set
  listening,            \* onData is registered and the recorder started
  videoLoop,            \* frame loop of the current video effect
  orphans,              \* frame loops whose effect was cleaned up
  sent,                 \* the sendRealtimeInput fan-outs so far
  clicks                \* presses of the connect toggle so far

\* decoding of generate_video's imageBase64 argument
VARIABLES
  imageBase64Arg,       \* (fc.args as any).imageBase64
  decoded               \* what generateVideo is called with

altairVars ==
  <<jsonString, requestStates, mediaClientRef, mediaDisplay, lastGeneratedVideo,
    lastGeneratedImage, isLoadingMedia, isGeneratingMedia, generatingMediaType,
    downloadCalls, nextId, blobUrls, mounted, lastDisplayNote, now, tools,
    batches>>

trayVars ==
  <<speakingConnected, functionConnected, pending, joined, muted,
    activeVideoStream, listening, videoLoop, orphans, sent, clicks>>

decodeVars == <<imageBase64Arg, decoded>>

vars == <<altairVars, trayVars, decodeVars>>

\* null encodings
NoDisplay == [type |-> "none", url |-> 0, visible |-> FALSE]
NoVideo == [uri |-> 0, blobUrl |-> 0]
NoRequest == [name |-> "", id |-> "", ts |-> 0 - 1]

\* the React state one handler turn reads and writes
World ==
  [jsonString |-> jsonString, requestStates |-> requestStates,
   mediaDisplay |-> mediaDisplay, lastGeneratedVideo |-> lastGeneratedVideo,
   lastGeneratedImage |-> lastGeneratedImage, isLoadingMedia |-> isLoadingMedia,
   isGeneratingMedia |-> isGeneratingMedia,
   generatingMediaType |-> generatingMediaType,
   downloadCalls |-> downloadCalls, nextId |-> nextId, blobUrls |-> blobUrls,
   lastDisplayNote |-> lastDisplayNote]

\* URL.revokeObjectURL(blobUrl)
Revoke(urls, blobUrl) ==
  IF blobUrl = 0 THEN urls ELSE [urls EXCEPT ![blobUrl] = @ + 1]

\* the cleanup of the effect on [lastGeneratedVideo?.blobUrl]: it runs when
\* the render after a turn finds the dependency changed, and revokes the
\* blob URL of the render that installed it
CleanupBlobUrl(urls, old, new) ==
  IF old.blobUrl # new.blobUrl THEN Revoke(urls, old.blobUrl) ELSE urls

\* the state setters of a turn take effect and the component renders again;
\* the setters of an unmounted component do nothing, what was sent is sent
Commit(w) ==
  /\ lastDisplayNote' = w.lastDisplayNote
  /\ IF mounted
       THEN /\ jsonString' = w.jsonString
            /\ requestStates' = w.requestStates
            /\ mediaDisplay' = w.mediaDisplay
            /\ lastGeneratedVideo' = w.lastGeneratedVideo
            /\ lastGeneratedImage' = w.lastGeneratedImage
            /\ isLoadingMedia' = w.isLoadingMedia
            /\ isGeneratingMedia' = w.isGeneratingMedia
            /\ generatingMediaType' = w.generatingMediaType
            /\ downloadCalls' = w.downloadCalls
            /\ nextId' = w.nextId
            /\ blobUrls' = CleanupBlobUrl(w.blobUrls, lastGeneratedVideo,
                                          w.lastGeneratedVideo)
       ELSE /\ UNCHANGED <<jsonString, requestStates, mediaDisplay,
                           lastGeneratedVideo, lastGeneratedImage, isLoadingMedia,
                           isGeneratingMedia, generatingMediaType>>
            /\ downloadCalls' = w.downloadCalls
            /\ nextId' = w.nextId
            /\ blobUrls' = w.blobUrls

\* ------------------------------------------------- per-call bookkeeping
\* pc: "dropped" (no id), "unstarted", "download", "generate", "done"
\* (the call's promise resolved with resp), "rejected" (it rejected);
\* notes: the notifications the call sent to the speaking session;
\* submitted: the media client was invoked; answer: what the backend said;
\* artifact: the uri or data URI the call recorded as last generated
NoEntry ==
  [id |-> NoId, name |-> "", success |-> "-", status |-> "-", error |-> "-",
   requestId |-> NoRequest]

NewCall(fc) ==
  [pc |-> IF fc.id = NoId THEN "dropped" ELSE "unstarted", resp |-> NoEntry,
   requestId |-> NoRequest, notes |-> <<>>, submitted |-> FALSE,
   answer |-> "-", artifact |-> 0]

\* {response: {output: {success, message | error}}, id, name}
SuccessEntry(fc) ==
  [id |-> fc.id, name |-> fc.name, success |-> "true", status |-> "-",
   error |-> "-", requestId |-> NoRequest]

FailureEntry(fc, err) ==
  [id |-> fc.id, name |-> fc.name, success |-> "false", status |-> "-",
   error |-> err, requestId |-> NoRequest]

\* {response: {output: {status, requestId, message, error?}}, id, name}
ReadyEntry(fc, rid) ==
  [id |-> fc.id, name |-> fc.name, success |-> "-", status |-> "ready",
   error |-> "-", requestId |-> rid]

ErrorEntry(fc, rid, err) ==
  [id |-> fc.id, name |-> fc.name, success |-> "-", status |-> "error",
   error |-> err, requestId |-> rid]

Resolve(w, c, entry) == [w |-> w, c |-> [c EXCEPT !.pc = "done", !.resp = entry]]
Reject(w, c) == [w |-> w, c |-> [c EXCEPT !.pc = "rejected"]]
Await(w, c, what) == [w |-> w, c |-> [c EXCEPT !.pc = what]]

\* the fixed marker every notification text starts with
Marker == "[SYSTEM NOTIFICATION]: "

\* a notification that carries the bare message
Notification_Unmarked(message) == [to |-> "speaking", text |-> <<message>>]

\* speakingClient.send({text: `[SYSTEM NOTIFICATION]: ${message}`}, false):
\* the session it is sent into and its text, the marker and then the message
Notification(message) == [to |-> "speaking", text |-> <<Marker, message>>]

\* notifySpeakingModel, when speakingClient.send returns
Notified(c, msg) == [c EXCEPT !.notes = Append(@, Notification(msg))]

\* newMap.set(requestId, {status, ...})
SetRequest(w, rid, st) ==
  [w EXCEPT !.requestStates =
     [r \in DOMAIN @ \cup {rid} |-> IF r = rid THEN st ELSE @[r]]]

SetGenerating(w, type) ==
  [w EXCEPT !.isGeneratingMedia = TRUE, !.generatingMediaType = type]

ClearGenerating(w) ==
  [w EXCEPT !.isGeneratingMedia = FALSE, !.generatingMediaType = "null"]

\* ---------------------------------------------------------- show_media
\* setMediaDisplay(video); setIsLoadingMedia(false); notify; return success.
\* A throwing send is caught by the handler's try/catch.
ShowVideo(w, fc, c, blobUrl, sendOk) ==
  LET w1 == [w EXCEPT !.mediaDisplay =
                        [type |-> "video", url |-> blobUrl, visible |-> TRUE],
                      !.isLoadingMedia = FALSE]
  IN IF sendOk
       THEN Resolve([w1 EXCEPT !.lastDisplayNote = "shown"],
                    Notified(c, "video_shown"), SuccessEntry(fc))
       ELSE Resolve(w1, c, FailureEntry(fc, "send failed"))

ShowImage(w, fc, c, image, sendOk) ==
  LET w1 == [w EXCEPT !.mediaDisplay =
                        [type |-> "image", url |-> image, visible |-> TRUE]]
  IN IF sendOk
       THEN Resolve([w1 EXCEPT !.lastDisplayNote = "shown"],
                    Notified(c, "image_shown"), SuccessEntry(fc))
       ELSE Resolve([w1 EXCEPT !.isLoadingMedia = FALSE], c,
                    FailureEntry(fc, "send failed"))

\* downloadVideoAsBlob is entered: the fetch is started
StartDownload(w, fc, c, video) ==
  Await([w EXCEPT !.downloadCalls =
           [u \in DOMAIN @ \cup {video.uri} |->
              IF u = video.uri
                THEN (IF u \in DOMAIN @ THEN @[u] ELSE 0) + 1
                ELSE @[u]]],
        c, "download")

\* show_media without the test that an image was generated
ShowMediaCall_NoImageTest(w, fc, c, video, image, sendOk) ==
  IF ~fc.args.present
    THEN Reject(w, c)
  ELSE IF fc.args.mediaType = "video" /\ video # NoVideo
    THEN LET w1 == [w EXCEPT !.isLoadingMedia = TRUE]
         IN IF video.blobUrl = 0
              THEN StartDownload(w1, fc, c, video)
              ELSE ShowVideo(w1, fc, c, video.blobUrl, sendOk)
  ELSE IF fc.args.mediaType = "image"
    THEN ShowImage(w, fc, c, image, sendOk)
  ELSE Resolve(w, c, FailureEntry(fc, "nothing generated yet"))

\* the handler up to its first await; video and image are the closure's
\* lastGeneratedVideo and lastGeneratedImage
ShowMediaCall(w, fc, c, video, image, sendOk) ==
  IF ~fc.args.present
    THEN Reject(w, c)        \* (fc.args as any).mediaType, outside the try
  ELSE IF fc.args.mediaType = "video" /\ video # NoVideo
    THEN LET w1 == [w EXCEPT !.isLoadingMedia = TRUE]
         IN IF video.blobUrl = 0
              THEN StartDownload(w1, fc, c, video)
              ELSE ShowVideo(w1, fc, c, video.blobUrl, sendOk)
  ELSE IF fc.args.mediaType = "image" /\ image # 0
    THEN ShowImage(w, fc, c, image, sendOk)
  ELSE Resolve(w, c, FailureEntry(fc, "nothing generated yet"))

\* the handler after the download, with a catch that answers and leaves
\* the loading indicator on
ShowMediaDownloaded_KeepsLoading(w, fc, c, video, fetched, sendOk) ==
  IF fetched
    THEN LET blobUrl == w.nextId
             w1 == [w EXCEPT !.nextId = @ + 1,
                             !.blobUrls =
                               [u \in DOMAIN @ \cup {blobUrl} |->
                                  IF u = blobUrl THEN 0 ELSE @[u]],
                             !.lastGeneratedVideo =
                               [uri |-> video.uri, blobUrl |-> blobUrl]]
         IN ShowVideo(w1, fc, c, blobUrl, sendOk)
    ELSE Resolve(w, c, FailureEntry(fc, "download failed"))

\* the handler after await downloadVideoAsBlob(...), which ends with
\* URL.createObjectURL(blob)
ShowMediaDownloaded(w, fc, c, video, fetched, sendOk) ==
  IF fetched
    THEN LET blobUrl == w.nextId
             w1 == [w EXCEPT !.nextId = @ + 1,
                             !.blobUrls =
                               [u \in DOMAIN @ \cup {blobUrl} |->
                                  IF u = blobUrl THEN 0 ELSE @[u]],
                             !.lastGeneratedVideo =
                               [uri |-> video.uri, blobUrl |-> blobUrl]]
         IN ShowVideo(w1, fc, c, blobUrl, sendOk)
    ELSE Resolve([w EXCEPT !.isLoadingMedia = FALSE], c,
                 FailureEntry(fc, "download failed"))

\* ---------------------------------------------------------- hide_media
HideMediaCall(w, fc, c, sendOk) ==
  LET w1 == [w EXCEPT !.mediaDisplay = NoDisplay]
  IN IF sendOk
       THEN Resolve([w1 EXCEPT !.lastDisplayNote = "hidden"],
                    Notified(c, "hidden"), SuccessEntry(fc))
       ELSE Reject(w1, c)    \* no try around the send

\* ------------------------------------------------------- render_altair
RenderAltairCall(w, fc, c) == Resolve(w, c, SuccessEntry(fc))

\* ------------------------------------------------- media client calls
\* `${fc.name}_${fc.id}_${Date.now()}`
RequestId(fc, t) == [name |-> fc.name, id |-> fc.id, ts |-> t]

\* MediaClient.generateVideo: one await of models.generateVideos, whose
\* answer, the operation as the backend reports it at that moment, is
\* handed back as it is; there is no second request
GenerateVideoResult(answer) == answer

\* MediaClient.generateImage: one round trip, the response handed back
GenerateImageResult(answer) == answer

\* MediaClient.generateSpeech: one round trip, the response handed back
GenerateSpeechResult(answer) == answer

\* what the media client hands to the dispatcher for a backend answer
MediaClientResult(name, answer) ==
  IF name \in VideoNames THEN GenerateVideoResult(answer)
  ELSE IF name = GenerateImage THEN GenerateImageResult(answer)
  ELSE GenerateSpeechResult(answer)

\* a parse that makes a data URI of whatever the backend answered
ParseImageResponse_Unchecked(answer, fresh) == fresh

\* parseImageResponse: a data URI, or null for a response without
\* candidates, parts or inline data
ParseImageResponse(answer, fresh) == IF answer = "artifact" THEN fresh ELSE 0

\* the catch block of the media-client branch
CatchBlock(w, fc, c, err, sendOk) ==
  LET w1 == SetRequest(ClearGenerating(w), c.requestId, "error")
  IN IF sendOk
       THEN Resolve(w1, Notified(c, "failed"), ErrorEntry(fc, c.requestId, err))
       ELSE Reject(w1, c)    \* the send inside the catch block throws

\* setRequestStates(ready) and the ready response
ReadyBlock(w, fc, c) ==
  Resolve(SetRequest(w, c.requestId, "ready"), c, ReadyEntry(fc, c.requestId))

StartedNote(name) ==
  IF name = GenerateVideo THEN "video_started"
  ELSE IF name = GenerateVideoFromWebcam THEN "webcam_started"
  ELSE "image_started"

ReadyNote(name) ==
  IF name = GenerateVideo THEN "video_ready"
  ELSE IF name = GenerateVideoFromWebcam THEN "webcam_ready"
  ELSE "image_ready"

\* inside the try, up to the await of the media client
TryBlock(w, fc, c, frameOk, sendOk) ==
  IF fc.name \in VideoNames \cup {GenerateImage}
    THEN IF ~fc.args.present
           THEN CatchBlock(w, fc, c, "TypeError", sendOk)
         ELSE LET w1 == SetGenerating(w, IF fc.name = GenerateImage
                                           THEN "image" ELSE "video")
              IN IF ~sendOk
                   THEN CatchBlock(w1, fc, c, "send failed", sendOk)
                 ELSE IF fc.name = GenerateVideoFromWebcam /\ ~frameOk
                   THEN CatchBlock(w1, fc, Notified(c, StartedNote(fc.name)),
                                   "could not capture frame", sendOk)
                 ELSE Await(w1, [Notified(c, StartedNote(fc.name))
                                   EXCEPT !.submitted = TRUE], "generate")
  ELSE IF fc.name = GenerateSpeech
    THEN IF ~fc.args.present
           THEN CatchBlock(w, fc, c, "TypeError", sendOk)
           ELSE Await(w, [c EXCEPT !.submitted = TRUE], "generate")
  ELSE ReadyBlock(w, fc, c)  \* no branch matches the name

\* requestId, pending record, then the media client branch or the fallback
MediaClientCall(w, fc, c, t, client, frameOk, sendOk) ==
  LET rid == RequestId(fc, t)
      c1 == [c EXCEPT !.requestId = rid]
      w1 == SetRequest(w, rid, "pending")
  IN IF client
       THEN TryBlock(w1, fc, c1, frameOk, sendOk)
       ELSE Resolve(w1, c1, ErrorEntry(fc, rid, "MediaClient not initialized"))

\* the try block after the await; answer is "artifact" (a result with a
\* uri, a parseable image), "empty" (a result without: an operation with no
\* outputs, a malformed image response), "unfinished" (an operation the
\* backend reports as not yet complete: no uri either) or "reject"
Generated(w, fc, c, answer, sendOk) ==
  IF answer = "reject"
    THEN CatchBlock(w, fc, c, "backend error", sendOk)
  ELSE IF fc.name \in VideoNames /\ answer = "artifact"
    THEN LET w1 == ClearGenerating(
                     [w EXCEPT !.nextId = @ + 1,
                               !.lastGeneratedVideo =
                                 [uri |-> w.nextId, blobUrl |-> 0]])
             c1 == [c EXCEPT !.artifact = w.nextId]
         IN IF sendOk
              THEN ReadyBlock(w1, fc, Notified(c1, ReadyNote(fc.name)))
              ELSE CatchBlock(w1, fc, c1, "send failed", sendOk)
  ELSE IF fc.name = GenerateImage /\ ParseImageResponse(answer, w.nextId) # 0
    THEN LET w1 == ClearGenerating(
                     [w EXCEPT !.nextId = @ + 1,
                               !.lastGeneratedImage =
                                 ParseImageResponse(answer, w.nextId)])
             c1 == [c EXCEPT !.artifact = w.nextId]
         IN IF sendOk
              THEN ReadyBlock(w1, fc, Notified(c1, ReadyNote(fc.name)))
              ELSE CatchBlock(w1, fc, c1, "send failed", sendOk)
  ELSE ReadyBlock(w, fc, c)

\* ------------------------------------------------------------ onToolCall
\* toolCall.functionCalls.find((fc) => fc.name === declaration.name)
RECURSIVE FindAltair(_, _)
FindAltair(calls, i) ==
  IF i > Len(calls) THEN 0
  ELSE IF calls[i].name = RenderAltair THEN i
  ELSE FindAltair(calls, i + 1)

\* .filter((fc) => fc.id)
IdBearing(calls) == {i \in 1..Len(calls) : calls[i].id # NoId}

\* one call of the batch, up to its first await
StartCall(w, fc, c, video, image, t, client, frameOk, sendOk) ==
  IF fc.name = RenderAltair THEN RenderAltairCall(w, fc, c)
  ELSE IF fc.name = ShowMedia THEN ShowMediaCall(w, fc, c, video, image, sendOk)
  ELSE IF fc.name = HideMedia THEN HideMediaCall(w, fc, c, sendOk)
  ELSE MediaClientCall(w, fc, c, t, client, frameOk, sendOk)

\* a loop that awaits each call before it starts the next one: the calls
\* behind the first one that awaits are not started
RECURSIVE MapCalls_Sequential(_, _, _, _, _, _, _, _, _, _)
MapCalls_Sequential(w, calls, cs, i, video, image, t, client, frameOk, sendOk) ==
  IF i > Len(calls) THEN [w |-> w, cs |-> cs]
  ELSE IF i \notin IdBearing(calls)
    THEN MapCalls_Sequential(w, calls, cs, i + 1, video, image, t, client,
                             frameOk, sendOk)
  ELSE LET r == StartCall(w, calls[i], cs[i], video, image, t, client,
                          frameOk, sendOk)
       IN IF r.c.pc \in {"download", "generate"}
            THEN [w |-> r.w, cs |-> [cs EXCEPT ![i] = r.c]]
            ELSE MapCalls_Sequential(r.w, calls, [cs EXCEPT ![i] = r.c], i + 1,
                                     video, image, t, client, frameOk, sendOk)

\* .map(async (fc) => ...): every id-bearing call is started, in order
RECURSIVE MapCalls(_, _, _, _, _, _, _, _, _, _)
MapCalls(w, calls, cs, i, video, image, t, client, frameOk, sendOk) ==
  IF i > Len(calls) THEN [w |-> w, cs |-> cs]
  ELSE IF i \notin IdBearing(calls)
    THEN MapCalls(w, calls, cs, i + 1, video, image, t, client, frameOk, sendOk)
  ELSE LET r == StartCall(w, calls[i], cs[i], video, image, t, client,
                          frameOk, sendOk)
       IN MapCalls(r.w, calls, [cs EXCEPT ![i] = r.c], i + 1, video, image, t,
                   client, frameOk, sendOk)

\* a join that is fulfilled as soon as one call has resolved
AllResolved_AnyDone(cs) == \E i \in 1..Len(cs) : cs[i].pc = "done"

\* Promise.all: rejected as soon as one call rejects, fulfilled when all
\* the started calls have resolved
AllResolved(cs) == \A i \in 1..Len(cs) : cs[i].pc \in {"done", "dropped"}
AnyRejected(cs) == \E i \in 1..Len(cs) : cs[i].pc = "rejected"

\* the functionResponses array: the resolved entries, in call order
RECURSIVE FunctionResponses(_, _)
FunctionResponses(cs, i) ==
  IF i > Len(cs) THEN <<>>
  ELSE IF cs[i].pc = "done"
    THEN <<cs[i].resp>> \o FunctionResponses(cs, i + 1)
  ELSE FunctionResponses(cs, i + 1)

\* after the await Promise.all: functionClient.sendToolResponse, once
Continue(b, cs) ==
  IF b.status # "running" THEN [b EXCEPT !.cs = cs]
  ELSE IF AnyRejected(cs) THEN [b EXCEPT !.cs = cs, !.status = "rejected"]
  ELSE IF AllResolved(cs)
    THEN [b EXCEPT !.cs = cs, !.status = "sent", !.sends = @ + 1,
                   !.response = FunctionResponses(cs, 1)]
  ELSE [b EXCEPT !.cs = cs]

\* the kinds of artifact the backend has produced so far in this session
GeneratedKinds(bs) ==
  {kind \in {"video", "image"} :
     \E k \in 1..Len(bs) : \E i \in 1..Len(bs[k].calls) :
       /\ bs[k].cs[i].answer = "artifact"
       /\ bs[k].calls[i].name \in
            (IF kind = "video" THEN VideoNames ELSE {GenerateImage})}

RECURSIVE SumCalls(_, _)
SumCalls(bs, k) == IF k > Len(bs) THEN 0 ELSE Len(bs[k].calls) + SumCalls(bs, k + 1)

\* a tool-call batch arrives from the function session: onToolCall runs to
\* its await.  stored: what the batch called setJSONString with.  dt: whether the clock moved since the last batch; frameOk:
\* whether the webcam element yields a frame; sendOk: whether
\* speakingClient.send returns (or throws) during this turn.
OnToolCall(calls, dt, frameOk, sendOk) ==
  /\ Len(batches) < MaxBatches
  /\ dt = 1 => batches # <<>>
  /\ LET t == now + dt
         altairFc == FindAltair(calls, 1)
         cs0 == [i \in 1..Len(calls) |-> NewCall(calls[i])]
         b0 == [calls |-> calls, video |-> lastGeneratedVideo,
                image |-> lastGeneratedImage, cs |-> cs0, status |-> "running",
                sends |-> 0, response |-> <<>>,
                generatedBefore |-> GeneratedKinds(batches),
                frameOk |-> frameOk,
                stored |-> IF altairFc # 0 /\ calls[altairFc].args.present
                             THEN <<calls[altairFc].args.json_graph>>
                             ELSE <<>>]
     IN /\ now' = t
        /\ IF altairFc # 0 /\ ~calls[altairFc].args.present
             THEN \* (altairFc.args as any).json_graph throws: onToolCall rejects
                  /\ batches' = Append(batches, [b0 EXCEPT !.status = "rejected"])
                  /\ Commit(World)
             ELSE LET w0 == IF altairFc # 0
                              THEN [World EXCEPT !.jsonString =
                                      calls[altairFc].args.json_graph]
                              ELSE World
                  IN \E r \in {MapCalls(w0, calls, cs0, 1, lastGeneratedVideo,
                                        lastGeneratedImage, t, mediaClientRef,
                                        frameOk, sendOk)} :
                       /\ batches' = Append(batches, Continue(b0, r.cs))
                       /\ Commit(r.w)
  /\ UNCHANGED <<mediaClientRef, mounted, tools, trayVars, decodeVars>>

\* the fetch of a show_media video download settles
VideoDownloadSettles(k, i, fetched, sendOk) ==
  /\ k \in 1..Len(batches)
  /\ i \in 1..Len(batches[k].calls)
  /\ batches[k].cs[i].pc = "download"
  /\ LET b == batches[k]
         c == [b.cs[i] EXCEPT !.answer = IF fetched THEN "fetched" ELSE "unfetched"]
     IN \E r \in {ShowMediaDownloaded(World, b.calls[i], c, b.video, fetched,
                                       sendOk)} :
          /\ batches' = [batches EXCEPT ![k] = Continue(b, [b.cs EXCEPT ![i] = r.c])]
          /\ Commit(r.w)
  /\ UNCHANGED <<mediaClientRef, mounted, now, tools, trayVars, decodeVars>>

\* what the backend may answer: a result with an artifact (a uri, a
\* parseable image, audio), a result without one, a failure and, for a
\* video, an operation that is not yet complete
BackendAnswers(name) ==
  IF name = GenerateSpeech THEN {"artifact", "reject"}
  ELSE IF name \in VideoNames THEN {"artifact", "empty", "unfinished", "reject"}
  ELSE {"artifact", "empty", "reject"}

\* the media client's promise for a generation settles
GenerationSettles(k, i, answer, sendOk) ==
  /\ k \in 1..Len(batches)
  /\ i \in 1..Len(batches[k].calls)
  /\ batches[k].cs[i].pc = "generate"
  /\ answer \in BackendAnswers(batches[k].calls[i].name)
  /\ LET b == batches[k]
         c == [b.cs[i] EXCEPT !.answer = answer]
     IN \E r \in {Generated(World, b.calls[i], c,
                             MediaClientResult(b.calls[i].name, answer), sendOk)} :
          /\ batches' = [batches EXCEPT ![k] = Continue(b, [b.cs EXCEPT ![i] = r.c])]
          /\ Commit(r.w)
  /\ UNCHANGED <<mediaClientRef, mounted, now, tools, trayVars, decodeVars>>

\* ======================================================================
\* ControlTray: the two sessions joined
\* ======================================================================
Sessions == {"speaking", "function"}

\* const connected = speakingConnected && functionConnected
Connected(speaking, function) == speaking /\ function

SessionConnected(s) ==
  IF s = "speaking" THEN speakingConnected ELSE functionConnected

NoJoin ==
  [op |-> "none", pc |-> "idle", results |-> [s \in Sessions |-> "unstarted"]]

\* Promise.all settled as if it waited for every promise of the array
PromiseAll_AllSettled(results) ==
  IF \E s \in Sessions : results[s] \in {"pending", "unstarted"} THEN "awaiting"
  ELSE "resolved"

\* Promise.all over the sessions' promises: rejected with the first
\* rejection, fulfilled when all are
PromiseAll(results) ==
  IF \E s \in Sessions : results[s] = "rejected" THEN "rejected"
  ELSE IF \A s \in Sessions : results[s] = "resolved" THEN "resolved"
  ELSE "awaiting"

\* the array built from one session only
CallsOf_SpeakingFirst(op) ==
  [s \in Sessions |-> IF s = "speaking" THEN "pending" ELSE "unstarted"]

\* [connectSpeaking(), connectFunction()]: the array is built by calling
\* both, each call returns its promise
CallsOf(op) == [s \in Sessions |-> "pending"]

\* the recorder is started with onData registered when the audio effect
\* ran with no regard to muted
AudioEffect_IgnoresMuted(connected, isMuted) == connected

\* the audio effect: if (connected && !muted && audioRecorder) start with
\* onData, else stop; its cleanup takes onData off
AudioEffect(connected, isMuted) == connected /\ ~isMuted

\* the dependencies of the video effect:
\* [connected, activeVideoStream, speakingClient, functionClient, videoRef]
VideoEffectRuns(wasConnected, connected, streamChanged) ==
  wasConnected # connected \/ streamChanged

\* the cleanup of the video effect, clearTimeout(timeoutId): a loop waiting
\* on its timer ends, a loop whose animation frame is still queued is not
\* reached and goes on
VideoCleanup(loop, orph) ==
  IF loop = "raf" THEN [orph EXCEPT !.raf = @ + 1] ELSE orph

\* the body of the video effect: requestAnimationFrame(sendVideoFrame)
VideoEffect(connected, stream) ==
  IF connected /\ stream THEN "raf" ELSE "off"

\* the render after a handler: the effects whose dependencies changed run
RenderTray(speaking, function, isMuted, stream, streamChanged) ==
  LET connected == Connected(speaking, function)
      rerun == VideoEffectRuns(Connected(speakingConnected, functionConnected),
                               connected, streamChanged)
  IN /\ (rerun /\ videoLoop = "raf") => orphans.raf + orphans.timer < MaxOrphans
     /\ listening' = AudioEffect(connected, isMuted)
     /\ videoLoop' = IF rerun THEN VideoEffect(connected, stream) ELSE videoLoop
     /\ orphans' = IF rerun THEN VideoCleanup(videoLoop, orphans) ELSE orphans

\* a fan-out that stops after the speaking session
FanOut_SpeakingOnly(kind, by) ==
  [kind |-> kind, by |-> by,
   to |-> {s \in Sessions : SessionConnected(s)} \cap {"speaking"},
   connected |-> Connected(speakingConnected, functionConnected),
   muted |-> muted, stream |-> activeVideoStream]

\* one fan-out: speakingClient.sendRealtimeInput([chunk]) and then
\* functionClient.sendRealtimeInput([chunk]); a session that is open gets it
FanOut(kind, by) ==
  [kind |-> kind, by |-> by,
   to |-> {s \in Sessions : SessionConnected(s)},
   connected |-> Connected(speakingConnected, functionConnected),
   muted |-> muted, stream |-> activeVideoStream]

\* the connect toggle while not connected: connect()
Connect ==
  /\ clicks < MaxClicks
  /\ ~Connected(speakingConnected, functionConnected)
  /\ joined.pc # "awaiting"
  /\ \A s \in Sessions : pending[s] = "none"
  /\ clicks' = clicks + 1
  /\ LET calls == CallsOf("connect")
     IN /\ joined' = [op |-> "connect", pc |-> PromiseAll(calls), results |-> calls]
        /\ pending' = [s \in Sessions |->
                         IF calls[s] = "pending" THEN "connect" ELSE pending[s]]
  /\ UNCHANGED <<speakingConnected, functionConnected, muted, activeVideoStream,
                 listening, videoLoop, orphans, sent, altairVars, decodeVars>>

\* the connect toggle while connected: disconnect()
Disconnect ==
  /\ clicks < MaxClicks
  /\ Connected(speakingConnected, functionConnected)
  /\ joined.pc # "awaiting"
  /\ \A s \in Sessions : pending[s] = "none"
  /\ clicks' = clicks + 1
  /\ LET calls == CallsOf("disconnect")
     IN /\ joined' = [op |-> "disconnect", pc |-> PromiseAll(calls),
                      results |-> calls]
        /\ pending' = [s \in Sessions |->
                         IF calls[s] = "pending" THEN "disconnect" ELSE pending[s]]
  /\ UNCHANGED <<speakingConnected, functionConnected, muted, activeVideoStream,
                 listening, videoLoop, orphans, sent, altairVars, decodeVars>>

\* what a session's connected flag is once its connect / disconnect settled
SessionAfter(s, op, ok) ==
  IF op = "connect" THEN ok
  ELSE IF ok THEN FALSE ELSE SessionConnected(s)

\* a session's connect or disconnect settles; the tray's await Promise.all
\* goes on when the join is decided
SessionSettles(s, ok) ==
  /\ pending[s] # "none"
  /\ LET flag == SessionAfter(s, pending[s], ok)
         speaking == IF s = "speaking" THEN flag ELSE speakingConnected
         function == IF s = "function" THEN flag ELSE functionConnected
         results == [joined.results EXCEPT
                       ![s] = IF ok THEN "resolved" ELSE "rejected"]
     IN /\ speakingConnected' = speaking
        /\ functionConnected' = function
        /\ joined' = [joined EXCEPT !.results = results,
                                    !.pc = PromiseAll(results)]
        /\ RenderTray(speaking, function, muted, activeVideoStream, FALSE)
  /\ pending' = [pending EXCEPT ![s] = "none"]
  /\ UNCHANGED <<muted, activeVideoStream, sent, clicks, altairVars, decodeVars>>

\* a session is closed from the far end
SessionCloses(s) ==
  /\ SessionConnected(s)
  /\ pending[s] = "none"
  /\ LET speaking == IF s = "speaking" THEN FALSE ELSE speakingConnected
         function == IF s = "function" THEN FALSE ELSE functionConnected
     IN /\ speakingConnected' = speaking
        /\ functionConnected' = function
        /\ RenderTray(speaking, function, muted, activeVideoStream, FALSE)
  /\ UNCHANGED <<pending, joined, muted, activeVideoStream, sent, clicks,
                 altairVars, decodeVars>>

\* the mic button: setMuted(!muted)
SetMuted ==
  /\ muted' = ~muted
  /\ RenderTray(speakingConnected, functionConnected, ~muted, activeVideoStream,
                FALSE)
  /\ UNCHANGED <<speakingConnected, functionConnected, pending, joined,
                 activeVideoStream, sent, clicks, altairVars, decodeVars>>

\* changeStreams(next): a stream of the webcam or the screen is set, or the
\* stream is cleared
ChangeStreams(next) ==
  /\ next \/ activeVideoStream
  /\ activeVideoStream' = next
  /\ RenderTray(speakingConnected, functionConnected, muted, next, TRUE)
  /\ UNCHANGED <<speakingConnected, functionConnected, pending, joined, muted,
                 sent, clicks, altairVars, decodeVars>>

\* the recorder emits "data": onData
OnData ==
  /\ listening
  /\ Len(sent) < MaxSent
  /\ sent' = Append(sent, FanOut("audio", "recorder"))
  /\ UNCHANGED <<speakingConnected, functionConnected, pending, joined, muted,
                 activeVideoStream, listening, videoLoop, orphans, clicks,
                 altairVars, decodeVars>>

\* sendVideoFrame of the current effect, from its animation frame or its
\* timer; drawn: the canvas has a size.  The closure's connected is true,
\* so the loop sets its timer again.
SendVideoFrame(drawn) ==
  /\ videoLoop \in {"raf", "timer"}
  /\ drawn => Len(sent) < MaxSent
  /\ sent' = IF drawn THEN Append(sent, FanOut("video", "effect")) ELSE sent
  /\ videoLoop' = "timer"
  /\ UNCHANGED <<speakingConnected, functionConnected, pending, joined, muted,
                 activeVideoStream, listening, orphans, clicks, altairVars,
                 decodeVars>>

\* sendVideoFrame of an effect that was cleaned up while its animation
\* frame was queued: it runs, and sets a timer no cleanup will clear.  The
\* canvas has a size only while the video element has a stream
\* (videoRef.current.srcObject = activeVideoStream).
OrphanFrame(drawn) ==
  /\ orphans.raf > 0
  /\ drawn => activeVideoStream
  /\ drawn => Len(sent) < MaxSent
  /\ sent' = IF drawn THEN Append(sent, FanOut("video", "orphan")) ELSE sent
  /\ orphans' = [raf |-> orphans.raf - 1, timer |-> orphans.timer + 1]
  /\ UNCHANGED <<speakingConnected, functionConnected, pending, joined, muted,
                 activeVideoStream, listening, videoLoop, clicks, altairVars,
                 decodeVars>>

\* the timer of such a loop fires: the closure's connected is true, so it
\* sends the frame if the canvas has a size and sets its timer again
OrphanTimer ==
  /\ orphans.timer > 0
  /\ activeVideoStream
  /\ Len(sent) < MaxSent
  /\ sent' = Append(sent, FanOut("video", "orphan"))
  /\ UNCHANGED <<speakingConnected, functionConnected, pending, joined, muted,
                 activeVideoStream, listening, videoLoop, orphans, clicks,
                 altairVars, decodeVars>>

TrayInit ==
  /\ speakingConnected = FALSE
  /\ functionConnected = FALSE
  /\ pending = [s \in Sessions |-> "none"]
  /\ joined = NoJoin
  /\ muted = FALSE
  /\ activeVideoStream = FALSE
  /\ listening = FALSE
  /\ videoLoop = "off"
  /\ orphans = [raf |-> 0, timer |-> 0]
  /\ sent = <<>>
  /\ clicks = 0

TrayNext ==
  \/ Connect
  \/ Disconnect
  \/ \E s \in Sessions, ok \in BOOLEAN : SessionSettles(s, ok)
  \/ \E s \in Sessions : SessionCloses(s)
  \/ SetMuted
  \/ \E next \in BOOLEAN : ChangeStreams(next)
  \/ OnData
  \/ \E drawn \in BOOLEAN : SendVideoFrame(drawn)
  \/ \E drawn \in BOOLEAN : OrphanFrame(drawn)
  \/ OrphanTimer


\* ======================================================================
\* generate_video: decoding of the imageBase64 argument
\* ======================================================================
\* A string is a sequence of pieces: the words "data:" and "base64", the
\* characters ";" and ",", a line break, and "x" for any other character.
Pieces == {"data:", ";", "base64", ",", "x", "\n"}

\* the strings of n pieces
StringsOfLen(n) == [1..n -> Pieces]

\* the values of the argument: "" and the strings of up to MaxLen pieces
ImageArgs == UNION {StringsOfLen(n) : n \in 0..MaxLen}

Undefined == [defined |-> FALSE, value |-> <<>>]
Str(value) == [defined |-> TRUE, value |-> value]

\* the literal "image/jpeg"
Jpeg == <<"image/jpeg">>

\* str.indexOf(ch), counted from 1; 0 when there is none
RECURSIVE IndexFrom(_, _, _)
IndexFrom(str, ch, i) ==
  IF i > Len(str) THEN 0
  ELSE IF str[i] = ch THEN i
  ELSE IndexFrom(str, ch, i + 1)

\* imageBase64Arg.startsWith("data:")
StartsWithData(str) == Len(str) >= 1 /\ str[1] = "data:"

\* imageBase64Arg.match(/^data:([^;]+);base64,(.+)$/): [^;]+ ends before
\* the first ";", and "." takes no line break
StrictMatch(str) ==
  LET semi == IndexFrom(str, ";", 2)
  IN IF /\ StartsWithData(str)
        /\ semi >= 3
        /\ Len(str) >= semi + 3
        /\ str[semi + 1] = "base64"
        /\ str[semi + 2] = ","
        /\ \A k \in (semi + 3)..Len(str) : str[k] # "\n"
       THEN [matches |-> TRUE, mime |-> SubSeq(str, 2, semi - 1),
             payload |-> SubSeq(str, semi + 3, Len(str))]
       ELSE [matches |-> FALSE, mime |-> <<>>, payload |-> <<>>]

\* header.match(/^data:([^;]+)/) for a header that starts with "data:"
HeaderMime(header) ==
  LET semi == IndexFrom(header, ";", 2)
      last == IF semi = 0 THEN Len(header) ELSE semi - 1
  IN IF last >= 2 THEN Str(SubSeq(header, 2, last)) ELSE Undefined

\* the decoding with the fallback taken as the strings without "data:" are
DecodeImageArg_WholeOnMismatch(arg) ==
  IF arg = <<>>
    THEN [imageBase64 |-> Undefined, imageMimeType |-> Undefined]
  ELSE IF StartsWithData(arg) /\ StrictMatch(arg).matches
    THEN [imageBase64 |-> Str(StrictMatch(arg).payload),
          imageMimeType |-> Str(StrictMatch(arg).mime)]
  ELSE [imageBase64 |-> Str(arg), imageMimeType |-> Str(Jpeg)]

\* the imageBase64 and imageMimeType that generateVideo is called with
DecodeImageArg(arg) ==
  IF arg = <<>>                       \* if (imageBase64Arg): "" is falsy
    THEN [imageBase64 |-> Undefined, imageMimeType |-> Undefined]
  ELSE IF StartsWithData(arg)
    THEN IF StrictMatch(arg).matches
           THEN [imageBase64 |-> Str(StrictMatch(arg).payload),
                 imageMimeType |-> Str(StrictMatch(arg).mime)]
         ELSE LET commaIndex == IndexFrom(arg, ",", 1)
              IN IF commaIndex > 0
                   THEN [imageBase64 |->
                           Str(SubSeq(arg, commaIndex + 1, Len(arg))),
                         imageMimeType |->
                           HeaderMime(SubSeq(arg, 1, commaIndex - 1))]
                   ELSE [imageBase64 |-> Undefined, imageMimeType |-> Undefined]
  ELSE [imageBase64 |-> Str(arg), imageMimeType |-> Str(Jpeg)]

NotDecoded ==
  [called |-> FALSE, imageBase64 |-> Undefined, imageMimeType |-> Undefined]

\* no generate_video call is being decoded
DecodeInit ==
  /\ imageBase64Arg = <<>>
  /\ decoded = NotDecoded

\* a generate_video call with this imageBase64 argument reaches
\* mediaClientRef.current.generateVideo(prompt, imageBase64, imageMimeType)
DecodeImage ==
  /\ ~decoded.called
  /\ decoded' = [called |-> TRUE,
                 imageBase64 |-> DecodeImageArg(imageBase64Arg).imageBase64,
                 imageMimeType |-> DecodeImageArg(imageBase64Arg).imageMimeType]
  /\ UNCHANGED <<imageBase64Arg, altairVars, trayVars>>

AltairInit ==
  /\ jsonString = 0
  /\ requestStates = <<>>
  /\ mediaClientRef \in BOOLEAN
  /\ mediaDisplay = NoDisplay
  /\ lastGeneratedVideo = NoVideo
  /\ lastGeneratedImage = 0
  /\ isLoadingMedia = FALSE
  /\ isGeneratingMedia = FALSE
  /\ generatingMediaType = "null"
  /\ downloadCalls = <<>>
  /\ nextId = 1
  /\ blobUrls = <<>>
  /\ mounted = TRUE
  /\ lastDisplayNote = "none"
  /\ now = 0
  /\ tools \in Families
  /\ batches = <<>>

\* the other components are at rest
Init == AltairInit /\ TrayInit /\ DecodeInit

\* the component unmounts: the effects' cleanups run, functionClient.off
\* ends the subscription; promises that are awaited stay awaited
Unmount ==
  /\ mounted
  /\ mounted' = FALSE
  /\ blobUrls' = Revoke(blobUrls, lastGeneratedVideo.blobUrl)
  /\ UNCHANGED <<jsonString, requestStates, mediaClientRef, mediaDisplay,
                 lastGeneratedVideo, lastGeneratedImage, isLoadingMedia,
                 isGeneratingMedia, generatingMediaType, downloadCalls, nextId,
                 lastDisplayNote, now, tools, batches, trayVars, decodeVars>>

\* a close button that also empties the request records
CloseMedia_ClearsRecords ==
  /\ mounted
  /\ mediaDisplay.visible
  /\ mediaDisplay' = NoDisplay
  /\ requestStates' = <<>>
  /\ UNCHANGED <<jsonString, mediaClientRef, lastGeneratedVideo,
                 lastGeneratedImage, isLoadingMedia, isGeneratingMedia,
                 generatingMediaType, downloadCalls, nextId, blobUrls, mounted,
                 lastDisplayNote, now, tools, batches, trayVars, decodeVars>>

\* the close button of the displayed media, rendered while mediaDisplay is
\* set and visible: onClick={() => setMediaDisplay(null)}
CloseMedia ==
  /\ mounted
  /\ mediaDisplay.visible
  /\ mediaDisplay' = NoDisplay
  /\ UNCHANGED <<jsonString, requestStates, mediaClientRef, lastGeneratedVideo,
                 lastGeneratedImage, isLoadingMedia, isGeneratingMedia,
                 generatingMediaType, downloadCalls, nextId, blobUrls, mounted,
                 lastDisplayNote, now, tools, batches, trayVars, decodeVars>>

\* the function session emits a "toolcall" event while onToolCall is
\* subscribed
ToolCallEvent ==
  /\ mounted
  /\ Len(batches) < MaxBatches
  /\ SumCalls(batches, 1) < MaxTotalCalls
  /\ \E n \in 1..MaxCalls :
       /\ SumCalls(batches, 1) + n <= MaxTotalCalls
       /\ \E calls \in ToolCallBatches[tools][n], dt \in {0, 1}, sendOk \in BOOLEAN :
            \E frameOk \in
                 (IF \E i \in 1..n : calls[i].name = GenerateVideoFromWebcam
                    THEN BOOLEAN ELSE {TRUE}) :
              OnToolCall(calls, dt, frameOk, sendOk)

Next ==
  \/ ToolCallEvent
  \/ Unmount
  \/ CloseMedia
  \/ \E k \in 1..MaxBatches, i \in 1..MaxCalls, fetched, sendOk \in BOOLEAN :
       VideoDownloadSettles(k, i, fetched, sendOk)
  \/ \E k \in 1..MaxBatches, i \in 1..MaxCalls, sendOk \in BOOLEAN :
       \E answer \in {"artifact", "empty", "unfinished", "reject"} :
         GenerationSettles(k, i, answer, sendOk)

Spec == Init /\ [][Next]_vars

\* the Altair component at rest, with a media client
AltairAtRest ==
  /\ AltairInit
  /\ mediaClientRef
  /\ tools = CHOOSE family \in Families : TRUE

\* ControlTray on its own
TraySpecInit == AltairAtRest /\ TrayInit /\ DecodeInit
TraySpec == TraySpecInit /\ [][TrayNext]_vars

\* the decoding of one image argument
DecodeSpecInit ==
  /\ AltairAtRest
  /\ TrayInit
  /\ imageBase64Arg \in ImageArgs
  /\ decoded = NotDecoded
DecodeNext == DecodeImage
DecodeSpec == DecodeSpecInit /\ [][DecodeNext]_vars

\* ======================================================================
\* Properties
\* ======================================================================
BatchIndex == 1..Len(batches)

\* nothing of the batch is awaited any more
Quiescent(b) == \A i \in 1..Len(b.cs) : b.cs[i].pc \notin {"download", "generate"}

\* the ids of the id-bearing calls, in call order
IdsOf(calls) ==
  LET s == SelectSeq(calls, LAMBDA fc : fc.id # NoId)
  IN [j \in 1..Len(s) |-> s[j].id]

EntryIds(response) == [j \in 1..Len(response) |-> response[j].id]

HasEntry(response, id) == \E j \in 1..Len(response) : response[j].id = id

\* C1: for every tool-call batch sendToolResponse is called exactly once,
\* only after every id-bearing call has settled, with exactly one entry per
\* id-bearing call, each carrying that call's id.
C1_OneResponsePerBatch ==
  \A k \in BatchIndex :
    LET b == batches[k]
    IN /\ b.sends <= 1
       /\ Quiescent(b) => b.sends = 1
       /\ b.sends = 1 =>
            /\ Quiescent(b)
            /\ EntryIds(b.response) = IdsOf(b.calls)

\* C2: whatever step throws while one call of a batch is resolved, the
\* batch response is still sent and holds an entry for every other
\* id-bearing call.
C2_FailureIsolation ==
  \A k \in BatchIndex :
    LET b == batches[k]
    IN Quiescent(b) =>
         /\ b.sends = 1
         /\ \A i \in IdBearing(b.calls) :
              b.cs[i].pc # "rejected" => HasEntry(b.response, b.calls[i].id)

\* C3: a generate_video call whose backend operation completes with zero
\* outputs ends with its request record in error and an "error" entry,
\* while a succeeding sibling of the batch is answered "ready".
C3_EmptyVideoIsError ==
  \A k \in BatchIndex :
    LET b == batches[k]
    IN \A i, j \in IdBearing(b.calls) :
         ( /\ i # j
           /\ b.calls[i].name = GenerateVideo
           /\ b.cs[i].answer = "empty"
           /\ b.cs[i].pc = "done"
           /\ b.cs[j].answer = "artifact"
           /\ b.cs[j].pc = "done" )
         => /\ b.cs[i].resp.status = "error"
            /\ requestStates[b.cs[i].requestId] = "error"
            /\ b.cs[j].resp.status = "ready"

\* C4: a call whose name is not a declared tool name is answered with an
\* error entry for its id: neither dropped nor answered success or ready.
C4_UnknownToolIsError ==
  \A k \in BatchIndex :
    LET b == batches[k]
    IN \A i \in IdBearing(b.calls) :
         (b.calls[i].name \notin DeclaredNames /\ b.cs[i].pc # "unstarted")
         => /\ b.cs[i].pc = "done"
            /\ b.cs[i].resp.id = b.calls[i].id
            /\ b.cs[i].resp.status = "error"

\* C5: every request record is created pending before its backend
\* operation starts and changes status exactly once, to ready or to error:
\* the record of a call that has settled is ready or error.
C5_RecordSettlesOnce ==
  \A k \in BatchIndex :
    LET b == batches[k]
    IN \A i \in IdBearing(b.calls) :
         /\ b.cs[i].submitted => b.cs[i].requestId \in DOMAIN requestStates
         /\ (b.cs[i].requestId # NoRequest /\ b.cs[i].pc \in {"done", "rejected"})
            => requestStates[b.cs[i].requestId] \in {"ready", "error"}

\* C6: no two dispatched calls, in one batch or in different batches, get
\* the same requestId.
C6_RequestIdUnique ==
  \A k1, k2 \in BatchIndex :
    \A i1 \in 1..Len(batches[k1].calls), i2 \in 1..Len(batches[k2].calls) :
      ( /\ <<k1, i1>> # <<k2, i2>>
        /\ batches[k1].cs[i1].requestId # NoRequest )
      => batches[k1].cs[i1].requestId # batches[k2].cs[i2].requestId

\* the id-bearing calls carry the arguments their tool declares
WellFormed(fc) == fc.args.present \/ fc.name = HideMedia

\* C7: a call without id gets no entry in the batch response, and the
\* other calls of the batch are still answered (here: the others are well
\* formed and none of them throws).
C7_IdlessDroppedOthersAnswered ==
  \A k \in BatchIndex :
    LET b == batches[k]
    IN ( /\ \E i \in 1..Len(b.calls) : b.calls[i].id = NoId
         /\ IdBearing(b.calls) # {}
         /\ \A i \in IdBearing(b.calls) :
              WellFormed(b.calls[i]) /\ b.cs[i].pc # "rejected"
         /\ Quiescent(b) )
       => /\ b.sends = 1
          /\ EntryIds(b.response) = IdsOf(b.calls)
          /\ ~HasEntry(b.response, NoId)

\* the show_media calls of a batch that ask for a kind of which nothing
\* had been generated when the batch arrived, and whose handler has run
UngeneratedShows(b) ==
  {i \in IdBearing(b.calls) :
     /\ b.calls[i].name = ShowMedia
     /\ b.calls[i].args.present
     /\ b.calls[i].args.mediaType \notin b.generatedBefore
     /\ b.cs[i].pc # "unstarted"}

\* C8: show_media for a kind of which nothing has been generated in this
\* session is answered success:false with an error message, sends no
\* notification and (when the batch holds nothing else) leaves mediaDisplay
\* unchanged.
C8_ShowBeforeGenerate ==
  [][ /\ \A k \in 1..Len(batches') :
           \A i \in UngeneratedShows(batches'[k]) :
             LET c == batches'[k].cs[i]
             IN /\ c.pc = "done"
                /\ c.resp.id = batches'[k].calls[i].id
                /\ c.resp.success = "false"
                /\ c.resp.error = "nothing generated yet"
                /\ c.notes = <<>>
      /\ ( /\ Len(batches') = Len(batches) + 1
           /\ UngeneratedShows(batches'[Len(batches')]) =
                1..Len(batches'[Len(batches')].calls) )
         => /\ mediaDisplay' = mediaDisplay
            /\ isLoadingMedia' = isLoadingMedia
            /\ lastGeneratedVideo' = lastGeneratedVideo
    ]_vars

\* C8 witness: such a show_media call was dispatched and answered while
\* another kind of media was on display
C8_Witness ==
  \E k \in BatchIndex :
    /\ UngeneratedShows(batches[k]) = 1..Len(batches[k].calls)
    /\ batches[k].status = "sent"
    /\ mediaDisplay.visible

\* C9: hide_media always succeeds: a hide_media call whose handler has run
\* is answered success:true and mediaDisplay is empty afterwards.
C9_HideAlwaysSucceeds ==
  \A k \in BatchIndex :
    LET b == batches[k]
    IN \A i \in IdBearing(b.calls) :
         (b.calls[i].name = HideMedia /\ b.cs[i].pc # "unstarted")
         => b.cs[i].pc = "done" /\ b.cs[i].resp.success = "true"

\* C10: for one generated video (one source URI) the download step runs at
\* most once, however many show_media(video) calls ask for it.
C10_OneDownloadPerVideo ==
  \A u \in DOMAIN downloadCalls : downloadCalls[u] <= 1

\* C11: every blob URL a video download created is revoked exactly once,
\* when it is superseded or on teardown: never twice, not while it is the
\* cached handle of the mounted component, and none is left unrevoked once
\* the component is unmounted.
C11_HandleRevokedOnce ==
  \A h \in DOMAIN blobUrls :
    /\ blobUrls[h] <= 1
    /\ (mounted /\ lastGeneratedVideo.blobUrl = h) => blobUrls[h] = 0
    /\ ~mounted => blobUrls[h] = 1

\* C12: while the component shows a video (mediaDisplay set, visible), the
\* blob URL it plays has not been revoked.
C12_VisibleArtifactExists ==
  (mounted /\ mediaDisplay.visible /\ mediaDisplay.type = "video")
  => /\ mediaDisplay.url \in DOMAIN blobUrls
     /\ blobUrls[mediaDisplay.url] = 0

\* C13: when one session's connect resolves and the other's rejects, the
\* tray's connect rejects and the combined connected flag is false.
C13_PartialConnectRejects ==
  ( /\ joined.op = "connect"
    /\ \E s, t \in Sessions :
         joined.results[s] = "resolved" /\ joined.results[t] = "rejected" )
  => /\ joined.pc = "rejected"
     /\ ~Connected(speakingConnected, functionConnected)

\* C13 witness: the speaking session connected, the function session's
\* connect rejected
C13_Witness ==
  /\ joined.op = "connect"
  /\ joined.results["speaking"] = "resolved"
  /\ joined.results["function"] = "rejected"
  /\ speakingConnected

\* C14: connect and disconnect start the operation on both sessions before
\* anything is awaited, and resolve only when both have resolved.
C14_JoinedInParallel ==
  joined.pc # "idle"
  => /\ \A s \in Sessions : joined.results[s] # "unstarted"
     /\ joined.pc = "resolved"
          <=> \A s \in Sessions : joined.results[s] = "resolved"
     /\ joined.pc = "awaiting"
          => \E s \in Sessions : pending[s] = joined.op

\* C14 witness: a disconnect, after a connect, has resolved on both sessions
C14_Witness ==
  /\ joined.op = "disconnect"
  /\ joined.pc = "resolved"
  /\ ~speakingConnected /\ ~functionConnected

\* C15: while both sessions are connected (and, for audio, the microphone is
\* unmuted) the recorder runs and the frame loop runs, and every chunk and
\* every frame they hand over reaches both sessions.
C15_FanOutToBoth ==
  /\ \A j \in 1..Len(sent) :
       (sent[j].connected /\ (sent[j].kind = "audio" => ~sent[j].muted))
       => sent[j].to = Sessions
  /\ (Connected(speakingConnected, functionConnected) /\ ~muted) => listening
  /\ (Connected(speakingConnected, functionConnected) /\ activeVideoStream)
     => videoLoop \in {"raf", "timer"}

\* C15 witness: an audio chunk and a video frame were forwarded while
\* connected
C15_Witness ==
  /\ \E j \in 1..Len(sent) : sent[j].kind = "audio" /\ sent[j].connected
  /\ \E j \in 1..Len(sent) : sent[j].kind = "video" /\ sent[j].connected

\* C16: while muted no audio chunk is forwarded; frames are forwarded to
\* both sessions as when unmuted; toggling mute leaves the frame loop as
\* it is.
C16_MuteIsAudioOnly ==
  [][ /\ muted' => ~listening'
      /\ \A j \in (Len(sent) + 1)..Len(sent') :
           /\ sent'[j].kind = "audio" => ~sent'[j].muted
           /\ (sent'[j].kind = "video" /\ sent'[j].connected)
              => sent'[j].to = Sessions
      /\ (muted' /\ Connected(speakingConnected', functionConnected')
            /\ activeVideoStream')
         => videoLoop' \in {"raf", "timer"}
      /\ muted' # muted => (videoLoop' = videoLoop /\ orphans' = orphans)
    ]_vars

\* C16 witness: a frame was forwarded to both sessions while muted and the
\* frame loop of a muted tray waits on its timer
C16_Witness ==
  /\ muted
  /\ videoLoop = "timer"
  /\ \E j \in 1..Len(sent) :
       sent[j].kind = "video" /\ sent[j].muted /\ sent[j].to = Sessions

\* the pieces a media type is written with: no ";", no ",", no line break
MimePieces == {"x", "base64"}

\* the <mime, payload> for which str is data:<mime>;base64,<payload>
CanonicalParts(str) ==
  {<<SubSeq(str, 2, i), SubSeq(str, i + 4, Len(str))>> : i \in
     {i \in 2..(Len(str) - 3) :
        /\ str[1] = "data:"
        /\ \A k \in 2..i : str[k] \in MimePieces
        /\ SubSeq(str, i + 1, i + 3) = <<";", "base64", ",">>}}

\* C17 as amended: a string data:<mime>;base64,<payload> with a non-empty
\* <mime> free of ";" and "," is decoded to <mime> and <payload>; a
\* non-empty string that does not start with data: is passed whole with
\* mime type image/jpeg.
C17_DecodeCanonical ==
  decoded.called =>
    /\ \A parts \in CanonicalParts(imageBase64Arg) :
         /\ decoded.imageMimeType = Str(parts[1])
         /\ decoded.imageBase64 = Str(parts[2])
    /\ (imageBase64Arg # <<>> /\ ~StartsWithData(imageBase64Arg))
       => /\ decoded.imageBase64 = Str(imageBase64Arg)
          /\ decoded.imageMimeType = Str(Jpeg)

\* C17 as stated: every string that does not start with data:, the empty
\* string too, is passed whole with mime type image/jpeg.
C17_AsStated ==
  decoded.called =>
    /\ \A parts \in CanonicalParts(imageBase64Arg) :
         /\ decoded.imageMimeType = Str(parts[1])
         /\ decoded.imageBase64 = Str(parts[2])
    /\ ~StartsWithData(imageBase64Arg)
       => /\ decoded.imageBase64 = Str(imageBase64Arg)
          /\ decoded.imageMimeType = Str(Jpeg)

\* C17 witness: a canonical string whose payload is a line break, which the
\* strict pattern does not take, was decoded
C17_Witness ==
  /\ decoded.called
  /\ CanonicalParts(imageBase64Arg) = {<<(<<"x">>), (<<"\n">>)>>}
  /\ decoded.imageBase64 = Str(<<"\n">>)

\* C18: every non-empty argument without a "," is passed whole as the
\* payload with mime type image/jpeg, also when it starts with data:.
C18_NoSeparatorWhole ==
  ( /\ decoded.called
    /\ imageBase64Arg # <<>>
    /\ IndexFrom(imageBase64Arg, ",", 1) = 0 )
  => /\ decoded.imageBase64 = Str(imageBase64Arg)
     /\ decoded.imageMimeType = Str(Jpeg)

\* C19: a generate_image call whose backend response is malformed records
\* no image (lastGeneratedImage stays as it is), its promise resolves with
\* an entry for its id, and when nothing else of the batch is open the
\* batch response is sent with that entry.
C19_MalformedImageNoArtifact ==
  [][ \A k \in 1..Len(batches) : \A i \in 1..Len(batches[k].calls) :
        ( /\ batches[k].calls[i].name = GenerateImage
          /\ batches[k].cs[i].pc = "generate"
          /\ batches'[k].cs[i].answer = "empty" )
        => /\ lastGeneratedImage' = lastGeneratedImage
           /\ batches'[k].cs[i].pc = "done"
           /\ batches'[k].cs[i].resp.id = batches[k].calls[i].id
           /\ batches'[k].cs[i].resp.status = "ready"
           /\ (\A j \in 1..Len(batches[k].calls) :
                 j # i => batches[k].cs[j].pc \in {"done", "dropped"})
              => /\ batches'[k].sends = 1
                 /\ HasEntry(batches'[k].response, batches[k].calls[i].id)
    ]_vars

\* C19 witness: a malformed image response arrived after an image had been
\* generated; the call was answered and the earlier image is still there
C19_Witness ==
  /\ mounted
  /\ lastGeneratedImage # 0
  /\ \E k \in BatchIndex : \E i \in 1..Len(batches[k].calls) :
       /\ batches[k].calls[i].name = GenerateImage
       /\ batches[k].cs[i].answer = "empty"
       /\ batches[k].status = "sent"
       /\ \E k0 \in 1..(k - 1) : \E i0 \in 1..Len(batches[k0].calls) :
            /\ batches[k0].calls[i0].name = GenerateImage
            /\ batches[k0].cs[i0].answer = "artifact"

\* C20: a generate_video_from_webcam call for which no frame could be
\* captured never reaches the backend, its request record is in error and
\* its entry has status "error" with the capture error.
C20_CaptureFailureIsLocal ==
  \A k \in BatchIndex :
    LET b == batches[k]
    IN \A i \in IdBearing(b.calls) :
         ( /\ b.calls[i].name = GenerateVideoFromWebcam
           /\ b.calls[i].args.present
           /\ ~b.frameOk
           /\ b.cs[i].requestId \in DOMAIN requestStates
           /\ b.cs[i].pc # "unstarted"
           /\ b.cs[i].resp.error # "MediaClient not initialized" )
         => /\ ~b.cs[i].submitted
            /\ requestStates[b.cs[i].requestId] = "error"
            /\ b.cs[i].pc = "done"
            /\ b.cs[i].resp.status = "error"
            /\ b.cs[i].resp.error = "could not capture frame"

\* the notifications the calls of all batches have sent
AllNotes ==
  UNION {{batches[k].cs[i].notes[j] : j \in 1..Len(batches[k].cs[i].notes)} :
           <<k, i>> \in {<<k, i>> \in BatchIndex \X (1..MaxCalls) :
                           i <= Len(batches[k].calls)}}

\* C21: every notification is sent into the speaking session, none into the
\* function session, and its text starts with the marker
\* "[SYSTEM NOTIFICATION]: ".
C21_SpeakingOnlyMarked ==
  \A note \in AllNotes :
    /\ note.to = "speaking"
    /\ Len(note.text) >= 2
    /\ note.text[1] = "[SYSTEM NOTIFICATION]: "

\* C21 witness: a generation told the speaking session that it started and
\* that it failed, and a hide_media call that the media is hidden
C21_Witness ==
  /\ \E note \in AllNotes : note.text[2] = "failed"
  /\ \E note \in AllNotes : note.text[2] = "hidden"
  /\ \E note \in AllNotes : note.text[2] \in {"video_started", "image_started"}

\* C22: a notification whose send throws does not fail what triggered it: a
\* generation whose backend produced its artifact is answered "ready", a
\* hide_media call is answered success, no show_media call is answered
\* with the error of the send, and the response of a batch of well-formed
\* calls is sent once nothing of it is awaited.
C22_NotifyBestEffort ==
  \A k \in BatchIndex :
    LET b == batches[k]
    IN /\ \A i \in IdBearing(b.calls) :
            /\ (b.calls[i].name \in VideoNames \cup {GenerateImage}
                  /\ b.cs[i].answer = "artifact")
               => (b.cs[i].pc = "done" /\ b.cs[i].resp.status = "ready")
            /\ (b.calls[i].name = HideMedia /\ b.cs[i].pc # "unstarted")
               => (b.cs[i].pc = "done" /\ b.cs[i].resp.success = "true")
            /\ (b.calls[i].name = ShowMedia /\ b.cs[i].pc = "done")
               => b.cs[i].resp.error # "send failed"
       /\ ((\A i \in 1..Len(b.calls) : WellFormed(b.calls[i])) /\ Quiescent(b))
          => b.sends = 1

\* the generations that notify: generate_video, generate_video_from_webcam
\* and generate_image
NotifyingNames == VideoNames \cup {GenerateImage}

\* C23: a generation call that sent its "started" notification has sent,
\* once it has settled, exactly one completion notification after it: the
\* success message if it is answered "ready", the failure message if it is
\* answered "error".
C23_OneCompletionNote ==
  \A k \in BatchIndex :
    LET b == batches[k]
    IN \A i \in IdBearing(b.calls) :
         LET c == b.cs[i]
         IN ( /\ b.calls[i].name \in NotifyingNames
              /\ c.pc \in {"done", "rejected"}
              /\ c.notes # <<>> )
            => /\ c.pc = "done"
               /\ Len(c.notes) = 2
               /\ c.notes[1] = Notification(StartedNote(b.calls[i].name))
               /\ c.resp.status = "ready"
                    => c.notes[2] = Notification(ReadyNote(b.calls[i].name))
               /\ c.resp.status = "error"
                    => c.notes[2] = Notification("failed")

\* C24: generateVideo returns to the dispatcher only when the backend
\* operation is done: no generate_video or generate_video_from_webcam call
\* has gone on past its await with an operation that is not yet complete.
C24_ReturnsOnlyDone ==
  \A k \in BatchIndex :
    LET b == batches[k]
    IN \A i \in IdBearing(b.calls) :
         (b.calls[i].name \in VideoNames /\ b.cs[i].pc \in {"done", "rejected"})
         => b.cs[i].answer # "unfinished"

\* the calls of the given names whose handler ran in this step: calls of a
\* batch that arrived, or calls whose awaited promise settled
HandlerRan(names) ==
  \E k \in 1..Len(batches') : \E i \in 1..Len(batches'[k].calls) :
    /\ batches'[k].calls[i].name \in names
    /\ batches'[k].calls[i].id # NoId
    /\ k <= Len(batches) => batches'[k].cs[i] # batches[k].cs[i]

\* C25 as amended: the RequestRecord mapping is written only in steps of
\* the dispatcher; mediaDisplay is written only in steps in which a
\* show_media or hide_media handler runs, and by the close button of the
\* displayed media, which clears a visible display and writes nothing else.
C25_DisplayWriters ==
  [][ /\ requestStates' # requestStates => batches' # batches
      /\ mediaDisplay' # mediaDisplay
         => \/ HandlerRan({ShowMedia, HideMedia})
            \/ /\ mediaDisplay.visible
               /\ mediaDisplay' = NoDisplay
               /\ UNCHANGED <<requestStates, batches, lastGeneratedVideo,
                              lastGeneratedImage, lastDisplayNote>>
    ]_vars

\* C25 as stated: mediaDisplay and the RequestRecord mapping change only in
\* steps of the dispatcher's handlers for tool calls.
C25_AsStated ==
  [][ (mediaDisplay' # mediaDisplay \/ requestStates' # requestStates)
      => batches' # batches ]_vars

\* C25 witness: the speaking session was last told that media is shown, no
\* send has failed and no call has thrown, and nothing is displayed: the
\* close button was pressed
C25_Witness ==
  /\ mounted
  /\ lastDisplayNote = "shown"
  /\ mediaDisplay = NoDisplay
  /\ \A k \in BatchIndex : \A i \in 1..Len(batches[k].calls) :
       /\ batches[k].cs[i].pc # "rejected"
       /\ batches[k].cs[i].resp.error # "send failed"

\* C26: every change of the display between shown and hidden is notified:
\* media is visible exactly when the last display notification the speaking
\* session got says that media is displayed.
C26_DisplayNotified ==
  mounted => (mediaDisplay.visible <=> lastDisplayNote = "shown")

KindNames(kind) == IF kind = "video" THEN VideoNames ELSE {GenerateImage}

\* the artifact of this kind that was recorded last (0: none): uris and
\* data URIs are numbered in the order in which they are made
LatestArtifact(kind) ==
  LET made == {batches[k].cs[i].artifact :
                 <<k, i>> \in {<<k, i>> \in BatchIndex \X (1..MaxCalls) :
                                 /\ i <= Len(batches[k].calls)
                                 /\ batches[k].calls[i].name \in KindNames(kind)}}
  IN CHOOSE a \in made \cup {0} : \A a2 \in made : a2 <= a

\* the handler of call i of batch k ran in this step
RanNow(k, i) == k > Len(batches) \/ batches'[k].cs[i] # batches[k].cs[i]

\* C27: a show_media call for a kind of which an artifact had been
\* generated when the call was made (for video: whose download succeeds)
\* is answered success:true and sends exactly one notification; the batch
\* is handled with the latest artifact of the kind, and the step in which
\* the call resolves leaves mediaDisplay at {type, url of that artifact,
\* visible} (when no other show_media or hide_media handler ran in it).
C27_ShowSetsLatest ==
  [][ \A k \in 1..Len(batches') : \A i \in 1..Len(batches'[k].calls) :
        LET b == batches'[k]
            fc == b.calls[i]
            c == b.cs[i]
            kind == fc.args.mediaType
        IN ( /\ fc.name = ShowMedia
             /\ fc.id # NoId
             /\ fc.args.present
             /\ kind \in b.generatedBefore
             /\ RanNow(k, i) )
           => /\ (k > Len(batches) /\ kind = "video")
                 => b.video.uri = LatestArtifact("video")
              /\ (c.pc = "done" /\ c.answer # "unfetched")
                 => /\ c.resp.success = "true"
                    /\ c.notes = <<Notification(IF kind = "video"
                                                  THEN "video_shown"
                                                  ELSE "image_shown")>>
                    /\ ( /\ mounted
                         /\ \A j \in 1..Len(b.calls) :
                              (j # i /\ b.calls[j].name \in {ShowMedia, HideMedia}
                                 /\ b.calls[j].id # NoId)
                              => ~RanNow(k, j) )
                       => /\ mediaDisplay'.type = kind
                          /\ mediaDisplay'.visible
                          /\ kind = "image"
                               => mediaDisplay'.url = LatestArtifact("image")
                          /\ kind = "video"
                               => /\ mediaDisplay'.url # 0
                                  /\ mediaDisplay'.url = lastGeneratedVideo'.blobUrl
                                  /\ lastGeneratedVideo'.uri = b.video.uri
    ]_vars

\* C28: when the download of a show_media(video) call fails, the call is
\* answered success:false with the error for its id, mediaDisplay and the
\* last generated video stay as they are, the loading indicator is cleared
\* and no notification is sent.
C28_DownloadFailure ==
  [][ \A k \in 1..Len(batches) : \A i \in 1..Len(batches[k].calls) :
        ( /\ batches[k].cs[i].pc = "download"
          /\ batches'[k].cs[i].answer = "unfetched" )
        => /\ batches'[k].cs[i].pc = "done"
           /\ batches'[k].cs[i].resp.id = batches[k].calls[i].id
           /\ batches'[k].cs[i].resp.success = "false"
           /\ batches'[k].cs[i].resp.error = "download failed"
           /\ batches'[k].cs[i].notes = <<>>
           /\ UNCHANGED <<mediaDisplay, lastGeneratedVideo, lastDisplayNote,
                          blobUrls>>
           /\ mounted => ~isLoadingMedia'
    ]_vars

\* C28 witness: a download failed while the component was mounted, the
\* call's batch was answered, the video is still cached without a blob URL
\* and the loading indicator is off
C28_Witness ==
  /\ mounted
  /\ ~isLoadingMedia
  /\ lastGeneratedVideo # NoVideo
  /\ lastGeneratedVideo.blobUrl = 0
  /\ \E k \in BatchIndex : \E i \in 1..Len(batches[k].calls) :
       /\ batches[k].cs[i].answer = "unfetched"
       /\ batches[k].cs[i].resp.success = "false"
       /\ batches[k].status = "sent"

\* the tools that are resolved through the media client
MediaClientNames == ToolNames \ {RenderAltair, ShowMedia, HideMedia}

\* C29: once anything of a batch is awaited or has settled, every
\* id-bearing call of the batch has been started: none is left unstarted,
\* and each media client call has its RequestRecord and, unless it has
\* settled already, its backend operation submitted.
C29_AllStartedBeforeAwait ==
  \A k \in BatchIndex :
    LET b == batches[k]
    IN (\E j \in IdBearing(b.calls) : b.cs[j].pc # "unstarted")
       => \A i \in IdBearing(b.calls) :
            /\ b.cs[i].pc # "unstarted"
            /\ b.calls[i].name \in MediaClientNames
               => /\ b.cs[i].requestId # NoRequest
                  /\ b.cs[i].requestId \in DOMAIN requestStates
                  /\ b.cs[i].pc \in {"generate", "done", "rejected"}
                  /\ b.cs[i].pc = "generate" => b.cs[i].submitted

\* C29 witness: of two generations of one batch the second has completed
\* with its artifact while the first is still awaited
C29_Witness ==
  \E k \in BatchIndex :
    /\ Len(batches[k].calls) = 2
    /\ batches[k].cs[1].pc = "generate"
    /\ batches[k].cs[1].submitted
    /\ batches[k].cs[2].answer = "artifact"
    /\ batches[k].cs[2].pc = "done"
    /\ batches[k].sends = 0

\* C30: a call sends its notifications (started, ready, failed, shown,
\* hidden) before the response of its batch is sent: in a step in which a
\* call of a batch notifies, the batch's response has not been sent before.
C30_NotesBeforeResponse ==
  [][ \A k \in 1..Len(batches) : \A i \in 1..Len(batches[k].calls) :
        batches'[k].cs[i].notes # batches[k].cs[i].notes
        => /\ batches[k].sends = 0
           /\ batches[k].cs[i].pc \notin {"done", "rejected"}
    ]_vars

\* C30 witness: the response of a batch of two calls was sent with the
\* entries of both, after a generation of it had notified its start and,
\* when the backend had answered, its completion, and the other call had
\* notified too
C30_Witness ==
  \E k \in BatchIndex :
    /\ batches[k].status = "sent"
    /\ Len(batches[k].response) = 2
    /\ batches[k].cs[1].answer = "artifact"
    /\ Len(batches[k].cs[1].notes) = 2
    /\ batches[k].cs[2].notes # <<>>

\* the entries the calls of a batch resolved with, in call order
OwnEntries(b) ==
  LET done == SelectSeq([i \in 1..Len(b.cs) |-> b.cs[i]], LAMBDA c : c.pc = "done")
  IN [j \in 1..Len(done) |-> done[j].resp]

\* C31: batches are not serialized: a batch that arrives while an earlier
\* one still awaits a generation or a download has its calls started at
\* once; and every batch gets exactly one response, sent when nothing of
\* the batch itself is awaited, that holds the entries of its own calls
\* only.
C31_BatchesNotSerialized ==
  \A k \in BatchIndex :
    LET b == batches[k]
    IN /\ (\A i \in 1..Len(b.calls) : WellFormed(b.calls[i]))
          => \A i \in IdBearing(b.calls) : b.cs[i].pc # "unstarted"
       /\ b.sends <= 1
       /\ b.sends = 1 => b.response = OwnEntries(b)
       /\ b.sends = 1 <=> Quiescent(b)

\* the render_altair calls of a batch that were answered with success and
\* carry a chart specification
AnsweredCharts(b) ==
  {i \in IdBearing(b.calls) :
     /\ b.calls[i].name = RenderAltair
     /\ b.calls[i].args.present
     /\ b.cs[i].pc = "done"
     /\ b.cs[i].resp.success = "true"}

\* C32: the chart specification of every render_altair call that is
\* answered with success was stored by its batch, and after a batch with
\* such calls the stored specification is one of theirs.
C32_AnsweredChartStored ==
  \A k \in BatchIndex :
    LET b == batches[k]
    IN /\ \A i \in AnsweredCharts(b) :
            \E j \in 1..Len(b.stored) : b.stored[j] = b.calls[i].args.json_graph
       /\ (k = Len(batches) /\ AnsweredCharts(b) # {})
          => \E i \in AnsweredCharts(b) : jsonString = b.calls[i].args.json_graph

\* C33: a call without id has no effect: it is dropped with no RequestRecord,
\* no backend operation and no notification; what a batch stores as chart
\* specification comes from an id-bearing render_altair call; and a batch
\* none of whose id-bearing calls throws is not lost to an id-less one.
C33_IdlessNoEffect ==
  \A k \in BatchIndex :
    LET b == batches[k]
    IN /\ \A i \in 1..Len(b.calls) :
            b.calls[i].id = NoId
            => /\ b.cs[i].pc = "dropped"
               /\ b.cs[i].requestId = NoRequest
               /\ b.cs[i].notes = <<>>
               /\ ~b.cs[i].submitted
               /\ b.cs[i].artifact = 0
       /\ \A j \in 1..Len(b.stored) :
            \E i \in IdBearing(b.calls) :
              /\ b.calls[i].name = RenderAltair
              /\ b.calls[i].args.present
              /\ b.calls[i].args.json_graph = b.stored[j]
       /\ (b.status = "rejected" /\ ~AnyRejected(b.cs))
          => \E i \in IdBearing(b.calls) : ~WellFormed(b.calls[i])

\* C34: the last generated video is the one of the video generation that
\* completed last: no step of an older operation puts an earlier uri back.
C34_LastVideoIsLatest ==
  mounted => lastGeneratedVideo.uri = LatestArtifact("video")

\* C35: once the response of a batch is sent, no RequestRecord of the batch
\* is pending and, for every call resolved through the media client path,
\* the status of its entry is the status of its RequestRecord.
C35_RecordMatchesResponse ==
  \A k \in BatchIndex :
    LET b == batches[k]
    IN (mounted /\ b.sends = 1)
       => \A i \in IdBearing(b.calls) :
            b.cs[i].requestId # NoRequest
            => /\ b.cs[i].requestId \in DOMAIN requestStates
               /\ requestStates[b.cs[i].requestId] # "pending"
               /\ requestStates[b.cs[i].requestId] = b.cs[i].resp.status

\* the generations of a kind that have been answered "ready"
ReadyGenerations(bs, kind) ==
  {<<k, i>> \in (1..Len(bs)) \X (1..MaxCalls) :
     /\ i <= Len(bs[k].calls)
     /\ bs[k].calls[i].name \in KindNames(kind)
     /\ bs[k].cs[i].pc = "done"
     /\ bs[k].cs[i].resp.status = "ready"}

\* C36: whenever a generate_video, generate_video_from_webcam or
\* generate_image call has been answered "ready", the last generated
\* artifact of its kind is recorded, and a show_media of that kind in a
\* batch that arrives afterwards is not answered that nothing has been
\* generated yet.
C36_ReadyHasArtifact ==
  [][ mounted =>
        /\ ReadyGenerations(batches', "video") # {}
             => lastGeneratedVideo' # NoVideo
        /\ ReadyGenerations(batches', "image") # {}
             => lastGeneratedImage' # 0
        /\ Len(batches') > Len(batches)
           => LET b == batches'[Len(batches')]
              IN \A j \in IdBearing(b.calls) :
                   ( /\ b.calls[j].name = ShowMedia
                     /\ b.calls[j].args.present
                     /\ ReadyGenerations(batches, b.calls[j].args.mediaType) # {}
                     /\ b.cs[j].pc = "done" )
                   => b.cs[j].resp.error # "nothing generated yet"
    ]_vars

\* the media generations that are in flight
GenerationsInFlight ==
  {<<k, i>> \in BatchIndex \X (1..MaxCalls) :
     /\ i <= Len(batches[k].calls)
     /\ batches[k].calls[i].name \in NotifyingNames
     /\ batches[k].cs[i].pc = "generate"}

\* C37: the generating indicator is on exactly while at least one media
\* generation is in flight.
C37_IndicatorWhileGenerating ==
  mounted => (isGeneratingMedia <=> GenerationsInFlight # {})

\* C38: no video frame is sent after the combined connected flag became
\* false or the active video stream was cleared: every video frame sent was
\* sent while connected and with a stream.
C38_NoFrameAfterStop ==
  \A j \in 1..Len(sent) :
    sent[j].kind = "video" => (sent[j].connected /\ sent[j].stream)

\* ======================================================================
\* Eventual answer: the dispatcher under fair settling
\* ======================================================================
\* the runs the liveness of the dispatcher is checked on: the function
\* model calls generate_video and show_media and may omit a call's args
LiveInit ==
  /\ Init
  /\ tools = [names |-> {ShowMedia, GenerateVideo}, missing |-> {"args"}]

\* every backend operation and every video download that was started
\* eventually settles: the promise a call awaits resolves or rejects
EverySettles ==
  \A k \in 1..MaxBatches, i \in 1..MaxCalls :
    /\ WF_vars(\E fetched, sendOk \in BOOLEAN :
                 VideoDownloadSettles(k, i, fetched, sendOk))
    /\ WF_vars(\E sendOk \in BOOLEAN :
                 \E answer \in {"artifact", "empty", "unfinished", "reject"} :
                   GenerationSettles(k, i, answer, sendOk))

LiveSpec == LiveInit /\ [][Next]_vars /\ EverySettles

\* C39: every tool-call batch is eventually answered, provided every
\* backend operation and every video download started for it eventually
\* settles: sendToolResponse is eventually called for each batch that
\* arrived.
C39_EventuallyAnswered ==
  \A k \in 1..MaxBatches :
    (Len(batches) >= k) ~> (Len(batches) >= k /\ batches[k].sends = 1)

====
